---- MODULE Spec2Model ----
(***************************************************************************)
(* A model of sqlalchemy-dqlite: the greenlet-adapted cursor of the async  *)
(* dialect (aio.py, AsyncAdaptedCursor) and the dialect-level helpers of   *)
(* the sync and async dialects (base.py, aio.py).                          *)
(*                                                                         *)
(* Python values are encoded as follows.  An optional value (x | None) is  *)
(* a sequence of length at most one: None is <<>> and the value x is       *)
(* <<x>>.  A result row is identified by an integer.  A column description *)
(* is the sequence of its column names.                                    *)
(***************************************************************************)
EXTENDS Integers, Sequences, FiniteSets, TLC

VARIABLES
    \* AsyncAdaptedCursor fields (aio.py:26-33)
    description, rowcount, lastrowid, arraysize, _rows,
    \* the underlying driver cursor opened by the last execute/executemany,
    \* and the driver calls the last operation made, in order
    drv, calls,
    \* the last operation, its arguments and what it returned or raised
    args, ret,
    \* history: whether execute or executemany has been called; the rows of
    \* the last execute that filled the buffer, the rows the fetch operations
    \* have returned since and whether close has discarded the buffer since;
    \* how many fetchall calls (counted up to two) have run since; the buffer
    \* at the start of the current run of fetchone calls and the results of
    \* that run
    executed, produced, served, discarded, drains, streakBase, streak,
    \* history of one connection: the calls its caller has made on it and on
    \* its cursor, and the calls the underlying driver has received, in order
    issued, wire,
    \* the dialect: the method last called and on which dialect, the input
    \* it was given (URL, driver behaviour, version row), the calls it made
    \* on the DBAPI connection and cursor, and what it returned or raised
    method, given, dcalls, outcome

cursorVars == <<description, rowcount, lastrowid, arraysize, _rows>>
histVars == <<executed, produced, served, discarded, drains, streakBase, streak>>
vars == <<description, rowcount, lastrowid, arraysize, _rows, drv, calls,
          args, ret,
          executed, produced, served, discarded, drains, streakBase, streak,
          issued, wire, method, given, dcalls, outcome>>
connVars == <<issued, wire>>
dialectVars == <<method, given, dcalls, outcome>>
adapterVars == <<description, rowcount, lastrowid, arraysize, _rows, drv, calls,
                 args, ret, executed, produced, served, discarded, drains,
                 streakBase, streak, issued, wire>>

----------------------------------------------------------------------------
\* Bounds of the model.

\* longest result set the driver produces
MaxRows == 2
\* largest size passed to fetchmany / assigned to arraysize
MaxSize == 2
\* longest run of fetchone calls past the end of the buffer
MaxMiss == 2
\* most components of a server version
MaxComponents == 3
\* most calls recorded in the history of one connection
MaxCalls == 3

----------------------------------------------------------------------------
\* Python values.

None == <<>>
Some(x) == <<x>>
Min(a, b) == IF a <= b THEN a ELSE b

\* bool(x) of an optional sequence: None and the empty sequence are falsy
Truthy(o) == o # None /\ o[1] # <<>>

SeqsUpTo(S, n) == UNION {[1..k -> S] : k \in 0..n}

\* the statements the caller runs: q1 has no placeholder, q2 has one; the
\* i-th row a statement produces is identified by the statement and i
Statements == {"q1", "q2"}
StmtTag(operation) == IF operation = "q1" THEN 10 ELSE 20
Rows(operation, k) == [i \in 1..k |-> StmtTag(operation) + i]

\* what a driver cursor may report as description: None, an empty
\* description, or column metadata
Descriptions == {None, Some(<<>>), Some(<<"id">>)}
\* what a driver cursor may report as rowcount and lastrowid: nothing, or
\* one row affected with row id 7
Reported == {[rowcount |-> -1, lastrowid |-> None],
             [rowcount |-> 1, lastrowid |-> Some(7)]}
\* parameters given to execute with a statement: None (not given) or an
\* empty sequence when it has no placeholder, else a non-empty sequence
Parameters(operation) ==
    IF operation = "q1" THEN {None, Some(<<>>)} ELSE {Some(<<1>>)}
Sizes == {None} \cup {Some(n) : n \in 0..MaxSize}
\* where the underlying driver raises during one call: nowhere, in
\* execute/executemany, or in fetchall
Failures == {"none", "execute", "fetchall"}

\* the driver's answers to one statement: rows come with column metadata
DriverResults(operation) ==
    {d \in {[description |-> desc, rows |-> Rows(operation, k),
             rowcount |-> r.rowcount, lastrowid |-> r.lastrowid] :
                desc \in Descriptions, k \in 0..MaxRows, r \in Reported} :
        ~Truthy(d.description) => d.rows = <<>>}

\* the arguments of an operation of the adapted cursor
Args(operation, parameters, size) ==
    [operation |-> operation, parameters |-> parameters, size |-> size]
NoArgs == Args("", None, None)

Returned(op, v) == [op |-> op, raised |-> FALSE, val |-> v]
Raised(op) == [op |-> op, raised |-> TRUE, val |-> None]

----------------------------------------------------------------------------
\* AsyncAdaptedCursor.__init__

InitCursor ==
    /\ description = None
    /\ rowcount = -1
    /\ lastrowid = None
    /\ arraysize = 1
    /\ _rows = <<>>
    /\ drv = [description |-> None, rows |-> <<>>, rowcount |-> -1,
              lastrowid |-> None, closed |-> TRUE]
    /\ calls = <<>>
    /\ args = NoArgs
    /\ ret = Returned("__init__", None)
    /\ executed = FALSE
    /\ produced = <<>>
    /\ served = <<>>
    /\ discarded = FALSE
    /\ drains = 0
    /\ streakBase = <<>>
    /\ streak = <<>>
    /\ issued = <<>>
    /\ wire = <<>>

\* history kept by every operation other than fetchone
EndStreak ==
    /\ streakBase' = _rows'
    /\ streak' = <<>>

\* history kept by an operation that returns the rows `out`
Serve(out) ==
    /\ served' = served \o out
    /\ UNCHANGED <<produced, discarded>>

----------------------------------------------------------------------------
\* Calls on the underlying driver connection and cursor.

Call(name, operation, nargs, parameters) ==
    [name |-> name, operation |-> operation, nargs |-> nargs,
     parameters |-> parameters]
CursorCall == Call("cursor", "", 0, <<>>)
FetchallCall == Call("fetchall", "", 0, <<>>)
CloseCall == Call("close", "", 0, <<>>)

SeqsOfParameters == {<< <<1>>, <<2>> >>}

\* the underlying cursor just opened by self._connection.cursor()
NoResult == [description |-> None, rows |-> <<>>, rowcount |-> -1,
             lastrowid |-> None]
Opened(d, closed) ==
    [description |-> d.description, rows |-> d.rows, rowcount |-> d.rowcount,
     lastrowid |-> d.lastrowid, closed |-> closed]

\* the underlying cursor whose fetchall raises: it has column metadata and
\* hands over no row
NoRows == [description |-> Some(<<"id">>), rows |-> <<>>, rowcount |-> -1,
           lastrowid |-> None]

\* the answer and the failure point an execute call can meet: fetchall is
\* only reached with a truthy description, and a cursor whose execute
\* raised reports nothing
ExecuteInputs(operation) ==
    {x \in DriverResults(operation) \X Failures :
        /\ x[2] = "fetchall" => x[1] = NoRows
        /\ x[2] = "execute" => x[1] = NoResult}
ExecutemanyInputs(operation) ==
    {x \in DriverResults(operation) \X (Failures \ {"fetchall"}) :
        x[2] = "execute" => x[1] = NoResult}

----------------------------------------------------------------------------
\* AsyncAdaptedCursor.execute

\* aio.py:43-46: parameters are passed to the driver when they are not None
execute_call(operation, parameters) ==
    IF parameters # None
    THEN Call("execute", operation, 2, parameters[1])
    ELSE Call("execute", operation, 1, <<>>)

\* a slip: the fetched rows are added to the buffer instead of replacing it
execute_capture_extends(d, fail) ==
    IF Truthy(d.description)
    THEN [description |-> d.description, lastrowid |-> Some(-1), rowcount |-> -1,
          _rows |-> IF fail = "fetchall" THEN _rows ELSE _rows \o d.rows]
    ELSE [description |-> None, lastrowid |-> d.lastrowid,
          rowcount |-> d.rowcount, _rows |-> _rows]

\* aio.py:48-55: what the adapted cursor captures once the underlying
\* execute has returned d; the buffer is replaced unless fetchall raises
execute_capture(d, fail) ==
    IF Truthy(d.description)
    THEN [description |-> d.description, lastrowid |-> Some(-1), rowcount |-> -1,
          _rows |-> IF fail = "fetchall" THEN _rows ELSE d.rows]
    ELSE [description |-> None, lastrowid |-> d.lastrowid,
          rowcount |-> d.rowcount, _rows |-> _rows]

\* a slip: fetchall is called whether or not the result has a description
execute_calls_fetch_always(operation, parameters, d, fail) ==
    <<CursorCall, execute_call(operation, parameters)>>
    \o (IF fail # "execute" THEN <<FetchallCall>> ELSE <<>>)
    \o (IF fail = "none" THEN <<CloseCall>> ELSE <<>>)

\* the driver calls of one execute, in order, up to the one that raises
execute_calls(operation, parameters, d, fail) ==
    <<CursorCall, execute_call(operation, parameters)>>
    \o (IF fail # "execute" /\ Truthy(d.description) THEN <<FetchallCall>> ELSE <<>>)
    \o (IF fail = "none" THEN <<CloseCall>> ELSE <<>>)

execute(operation, parameters, d, fail) ==
    LET c == execute_capture(d, fail) IN
    /\ calls' = execute_calls(operation, parameters, d, fail)
    /\ drv' = Opened(d, fail = "none")
    /\ IF fail = "execute"
       THEN UNCHANGED <<description, lastrowid, rowcount, _rows>>
       ELSE /\ description' = c.description
            /\ lastrowid' = c.lastrowid
            /\ rowcount' = c.rowcount
            /\ _rows' = c._rows
    /\ UNCHANGED <<arraysize, dialectVars>>
    /\ args' = Args(operation, parameters, None)
    /\ ret' = IF fail = "none" THEN Returned("execute", None) ELSE Raised("execute")
    /\ executed' = TRUE
    /\ IF fail = "none" /\ Truthy(d.description)
       THEN /\ produced' = d.rows
            /\ served' = <<>>
            /\ discarded' = FALSE
            /\ drains' = 0
       ELSE UNCHANGED <<produced, served, discarded, drains>>
    /\ EndStreak

----------------------------------------------------------------------------
\* AsyncAdaptedCursor.executemany

\* a slip: executemany buffers the rows of a result with column metadata
executemany_capture_buffers(d) ==
    [description |-> None, lastrowid |-> d.lastrowid, rowcount |-> d.rowcount,
     _rows |-> IF Truthy(d.description) THEN d.rows ELSE _rows]

\* aio.py:62-64
executemany_capture(d) ==
    [description |-> None, lastrowid |-> d.lastrowid, rowcount |-> d.rowcount,
     _rows |-> _rows]

executemany_calls(operation, seq_of_parameters, fail) ==
    <<CursorCall, Call("executemany", operation, 2, seq_of_parameters)>>
    \o (IF fail # "execute" THEN <<CloseCall>> ELSE <<>>)

executemany(operation, seq_of_parameters, d, fail) ==
    LET c == executemany_capture(d) IN
    /\ calls' = executemany_calls(operation, seq_of_parameters, fail)
    /\ drv' = Opened(d, fail = "none")
    /\ IF fail = "execute"
       THEN UNCHANGED <<description, lastrowid, rowcount, _rows>>
       ELSE /\ description' = c.description
            /\ lastrowid' = c.lastrowid
            /\ rowcount' = c.rowcount
            /\ _rows' = c._rows
    /\ UNCHANGED <<arraysize, produced, served, discarded, drains, dialectVars>>
    /\ executed' = TRUE
    /\ args' = Args(operation, Some(seq_of_parameters), None)
    /\ ret' = IF fail = "none" THEN Returned("executemany", None)
              ELSE Raised("executemany")
    /\ EndStreak

----------------------------------------------------------------------------
\* The buffer operations: each pops from the front of _rows.

\* a slip: pop() from the right end instead of popleft()
fetchone_pop_right(buf) ==
    IF buf # <<>>
    THEN [val |-> Some(buf[Len(buf)]), rest |-> SubSeq(buf, 1, Len(buf) - 1)]
    ELSE [val |-> None, rest |-> buf]

\* a slip: the row after the returned one is dropped from the buffer
fetchone_pop_skips(buf) ==
    IF buf # <<>>
    THEN [val |-> Some(Head(buf)), rest |-> SubSeq(buf, 3, Len(buf))]
    ELSE [val |-> None, rest |-> buf]

\* aio.py:68-70
fetchone_pop(buf) ==
    IF buf # <<>>
    THEN [val |-> Some(Head(buf)), rest |-> Tail(buf)]
    ELSE [val |-> None, rest |-> buf]

\* a slip: `if not size` instead of `if size is None`
fetchmany_pop_falsy(buf, size) ==
    LET n == IF size = None \/ size[1] = 0 THEN arraysize ELSE size[1]
        m == IF Min(n, Len(buf)) < 0 THEN 0 ELSE Min(n, Len(buf))
    IN [val |-> SubSeq(buf, 1, m), rest |-> SubSeq(buf, m + 1, Len(buf))]

\* aio.py:73-75: range(min(size, len)) is empty for a negative size
fetchmany_pop(buf, size) ==
    LET n == IF size = None THEN arraysize ELSE size[1]
        m == IF Min(n, Len(buf)) < 0 THEN 0 ELSE Min(n, Len(buf))
    IN [val |-> SubSeq(buf, 1, m), rest |-> SubSeq(buf, m + 1, Len(buf))]

\* a slip: the buffer is returned but not cleared
fetchall_pop_keeps(buf) == [val |-> buf, rest |-> buf]

\* aio.py:78-80
fetchall_pop(buf) == [val |-> buf, rest |-> <<>>]

\* what no buffer operation touches
BufferFrame ==
    /\ UNCHANGED <<description, rowcount, lastrowid, arraysize, drv, executed>>
    /\ UNCHANGED dialectVars
    /\ UNCHANGED connVars
    /\ calls' = <<>>

Misses == Cardinality({i \in 1..Len(streak) : streak[i] = None})

fetchone ==
    LET r == fetchone_pop(_rows) IN
    /\ Misses < MaxMiss
    /\ args' = NoArgs
    /\ ret' = Returned("fetchone", r.val)
    /\ _rows' = r.rest
    /\ BufferFrame
    /\ streak' = Append(streak, r.val)
    /\ Serve(r.val)
    /\ UNCHANGED <<streakBase, drains>>

fetchmany(size) ==
    LET r == fetchmany_pop(_rows, size) IN
    /\ args' = Args("", None, size)
    /\ ret' = Returned("fetchmany", r.val)
    /\ _rows' = r.rest
    /\ BufferFrame
    /\ Serve(r.val)
    /\ UNCHANGED drains
    /\ EndStreak

fetchall ==
    LET r == fetchall_pop(_rows) IN
    /\ args' = NoArgs
    /\ ret' = Returned("fetchall", r.val)
    /\ _rows' = r.rest
    /\ BufferFrame
    /\ Serve(r.val)
    /\ drains' = Min(drains + 1, 2)
    /\ EndStreak

\* a slip: close returns without clearing the buffer
close_keeps_rows ==
    /\ UNCHANGED _rows
    /\ args' = NoArgs
    /\ ret' = Returned("close", None)
    /\ BufferFrame
    /\ discarded' = TRUE
    /\ UNCHANGED <<produced, served>>
    /\ UNCHANGED drains
    /\ EndStreak

\* aio.py:38-39
close ==
    /\ _rows' = <<>>
    /\ args' = NoArgs
    /\ ret' = Returned("close", None)
    /\ BufferFrame
    /\ discarded' = TRUE
    /\ UNCHANGED <<produced, served>>
    /\ UNCHANGED drains
    /\ EndStreak

\* aio.py:92-96: StopIteration when fetchone returns None
__next__ ==
    LET r == fetchone_pop(_rows) IN
    /\ args' = NoArgs
    /\ ret' = IF r.val = None THEN Raised("__next__") ELSE Returned("__next__", r.val)
    /\ _rows' = r.rest
    /\ BufferFrame
    /\ Serve(r.val)
    /\ UNCHANGED drains
    /\ EndStreak

\* aio.py:88-90: one resumption of the generator
__iter__ ==
    /\ IF _rows # <<>>
       THEN /\ ret' = Returned("__iter__", Some(Head(_rows)))
            /\ _rows' = Tail(_rows)
       ELSE /\ ret' = Raised("__iter__")
            /\ UNCHANGED _rows
    /\ args' = NoArgs
    /\ BufferFrame
    /\ Serve(SubSeq(_rows, 1, Min(1, Len(_rows))))
    /\ UNCHANGED drains
    /\ EndStreak

\* the caller assigns the public attribute arraysize (aio.py:32)
set_arraysize(n) ==
    /\ arraysize' = n
    /\ args' = Args("", None, Some(n))
    /\ ret' = Returned("arraysize", None)
    /\ UNCHANGED <<description, rowcount, lastrowid, _rows, drv, executed, drains>>
    /\ UNCHANGED <<produced, served, discarded>>
    /\ UNCHANGED dialectVars
    /\ UNCHANGED connVars
    /\ calls' = <<>>
    /\ EndStreak

----------------------------------------------------------------------------
\* AsyncAdaptedConnection, and the history of one connection.

\* the caller's call `name` (with its statement, if any) is recorded, with
\* the driver calls it made
Issue(name, operation) ==
    /\ Len(issued) < MaxCalls
    /\ issued' = Append(issued, [name |-> name, operation |-> operation])
    /\ wire' = wire \o calls'

\* aio.py:113-120: one awaited call on the underlying connection, which
\* returns or raises
ConnectionCall(name, fails) ==
    /\ calls' = <<Call(name, "", 0, <<>>)>>
    /\ args' = NoArgs
    /\ ret' = IF fails THEN Raised(name) ELSE Returned(name, None)
    /\ UNCHANGED <<cursorVars, drv, histVars, dialectVars>>
    /\ Issue(name, "")

AsyncAdaptedConnection_commit(fails) == ConnectionCall("commit", fails)
AsyncAdaptedConnection_rollback(fails) == ConnectionCall("rollback", fails)
AsyncAdaptedConnection_close(fails) == ConnectionCall("connection.close", fails)

\* the answers of the driver met on one connection: at most one row, no
\* row id
ConnectionInputs(S) == {x \in S : Len(x[1].rows) <= 1 /\ x[1].lastrowid = None}

\* execute and executemany on the connection's cursor, recorded
cursor_execute(operation, parameters, d, fail) ==
    /\ execute(operation, parameters, d, fail)
    /\ Issue("execute", operation)
cursor_executemany(operation, seq_of_parameters, d, fail) ==
    /\ executemany(operation, seq_of_parameters, d, fail)
    /\ Issue("executemany", operation)

----------------------------------------------------------------------------
\* Text.  A Python str whose characters matter (a failure message, a version
\* string) is the sequence of its characters.

\* "no transaction is active"
Needle == <<"n", "o", " ", "t", "r", "a", "n", "s", "a", "c", "t", "i", "o", "n",
            " ", "i", "s", " ", "a", "c", "t", "i", "v", "e">>

\* Python's `needle in text`
Contains(text, needle) ==
    \E i \in 1..(Len(text) - Len(needle) + 1) :
        SubSeq(text, i, i + Len(needle) - 1) = needle

Digit == <<"0", "1", "2", "3", "4", "5", "6", "7", "8", "9">>
DigitVal(c) == CHOOSE d \in 0..9 : Digit[d + 1] = c

\* the decimal digits of a natural number, as characters and as a str
RECURSIVE IntChars(_)
IntChars(n) ==
    IF n < 10 THEN <<Digit[n + 1]>>
    ELSE IntChars(n \div 10) \o <<Digit[(n % 10) + 1]>>
RECURSIVE Str(_)
Str(n) == IF n < 10 THEN Digit[n + 1] ELSE Str(n \div 10) \o Digit[(n % 10) + 1]

\* Python's text.split("."): the pieces between the dots, at least one
RECURSIVE Split(_)
Split(text) ==
    IF \A i \in 1..Len(text) : text[i] # "."
    THEN <<text>>
    ELSE LET i == CHOOSE j \in 1..Len(text) :
                     text[j] = "." /\ \A k \in 1..(j - 1) : text[k] # "."
         IN <<SubSeq(text, 1, i - 1)>> \o Split(SubSeq(text, i + 1, Len(text)))

\* Python's int(x) on a str of the model's alphabet: a non-empty run of
\* decimal digits has a value, anything else raises ValueError
IsInt(x) == x # <<>> /\ \A i \in 1..Len(x) : \E d \in 1..10 : Digit[d] = x[i]
RECURSIVE IntOf(_)
IntOf(x) ==
    IF x = <<>> THEN 0
    ELSE 10 * IntOf(SubSeq(x, 1, Len(x) - 1)) + DigitVal(x[Len(x)])

\* Python's `x or default` on an optional value whose falsy value is given
PyOr(o, falsy, default) == IF o = None \/ o[1] = falsy THEN default ELSE o[1]

----------------------------------------------------------------------------
\* Failures and results of the dialect methods.

Exc(cls, msg) == [cls |-> cls, msg |-> msg]
NoExc == Exc("", <<>>)
\* str(e) of an exception raised with one message argument
str(e) == e.msg

\* what one call on the DBAPI connection or cursor does: return, or raise exc
DriverReturns == [raises |-> FALSE, exc |-> NoExc]
DriverRaises(e) == [raises |-> TRUE, exc |-> e]

Out == [raised |-> FALSE, exc |-> NoExc, bool |-> FALSE, tuple |-> <<>>,
        cargs |-> <<>>, cparams |-> [address |-> "", database |-> ""]]
ReturnsNone == Out
ReturnsBool(b) == [Out EXCEPT !.bool = b]
ReturnsTuple(t) == [Out EXCEPT !.tuple = t]
ReturnsConnectArgs(a, k) == [Out EXCEPT !.cargs = a, !.cparams = k]
Raises(e) == [Out EXCEPT !.raised = TRUE, !.exc = e]

\* the failure messages a driver raises: the needle alone, inside a longer
\* message, spelt differently or cut short, and unrelated messages
Prefixes == {<<>>, <<"n">>, <<"p", "i", "a">>}
Cores == {Needle, Tail(Needle), SubSeq(Needle, 1, Len(Needle) - 1),
          <<"N">> \o Tail(Needle),
          SubSeq(Needle, 1, 14) \o SubSeq(Needle, 18, 24),
          <<"l", "o", "c", "k", "e", "d">>, <<>>}
Suffixes == {<<>>, <<"l", "y">>}
Messages == {p \o c \o x : p \in Prefixes, c \in Cores, x \in Suffixes}
ErrorClasses == {"OperationalError", "InterfaceError"}
DriverErrors == {Exc(c, m) : c \in ErrorClasses, m \in Messages}
DriverOutcomes == {DriverReturns} \cup {DriverRaises(e) : e \in DriverErrors}

Dialects == {"sync", "aio"}

\* a connection URL: host, port and database, each optional
Hosts == {None, Some(""), Some("node1"), Some("localhost")}
Ports == {None, Some(0), Some(9001), Some(9002)}
Databases == {None, Some(""), Some("mydb")}
URLs == [host : Hosts, port : Ports, database : Databases]
NoURL == [host |-> None, port |-> None, database |-> None]

\* what a dialect method is given: the URL, what the driver does at the
\* step that may fail, the version row the server answers and the version
\* numbers that row spells (empty when it spells none)
Given(url, step, driver, row, numbers) ==
    [url |-> url, step |-> step, driver |-> driver, row |-> row,
     numbers |-> numbers]
NoGiven == Given(NoURL, "none", DriverReturns, None, <<>>)
Method(dialect, name) == [dialect |-> dialect, name |-> name]

InitDialect ==
    /\ method = Method("", "")
    /\ given = NoGiven
    /\ dcalls = <<>>
    /\ outcome = Out

Init == InitCursor /\ InitDialect

----------------------------------------------------------------------------
\* do_rollback and do_commit

\* base.py:75-80
DqliteDialect_do_rollback(o) ==
    IF ~o.raises THEN ReturnsNone
    ELSE IF ~Contains(str(o.exc), Needle) THEN Raises(o.exc) ELSE ReturnsNone

\* base.py:88-93
DqliteDialect_do_commit(o) ==
    IF ~o.raises THEN ReturnsNone
    ELSE IF ~Contains(str(o.exc), Needle) THEN Raises(o.exc) ELSE ReturnsNone

\* aio.py:167-171
DqliteDialect_aio_do_rollback(o) ==
    IF ~o.raises THEN ReturnsNone
    ELSE IF ~Contains(str(o.exc), Needle) THEN Raises(o.exc) ELSE ReturnsNone

\* a slip: the message is compared for equality instead of containment
DqliteDialect_aio_do_commit_equal(o) ==
    IF ~o.raises THEN ReturnsNone
    ELSE IF str(o.exc) # Needle THEN Raises(o.exc) ELSE ReturnsNone

\* aio.py:175-179
DqliteDialect_aio_do_commit(o) ==
    IF ~o.raises THEN ReturnsNone
    ELSE IF ~Contains(str(o.exc), Needle) THEN Raises(o.exc) ELSE ReturnsNone

\* o is what dbapi_connection.rollback() does
do_rollback(dialect, o) ==
    /\ method' = Method(dialect, "do_rollback")
    /\ given' = Given(NoURL, "none", o, None, <<>>)
    /\ dcalls' = <<"rollback">>
    /\ outcome' = IF dialect = "sync" THEN DqliteDialect_do_rollback(o)
                  ELSE DqliteDialect_aio_do_rollback(o)
    /\ UNCHANGED adapterVars

\* o is what dbapi_connection.commit() does
do_commit(dialect, o) ==
    /\ method' = Method(dialect, "do_commit")
    /\ given' = Given(NoURL, "none", o, None, <<>>)
    /\ dcalls' = <<"commit">>
    /\ outcome' = IF dialect = "sync" THEN DqliteDialect_do_commit(o)
                  ELSE DqliteDialect_aio_do_commit(o)
    /\ UNCHANGED adapterVars

----------------------------------------------------------------------------
\* do_ping (base.py:95-103; the async dialect inherits it)

\* the calls of a method that runs `steps` in order and stops at the one
\* that raises
CallsUpTo(steps, step) ==
    IF \E i \in 1..Len(steps) : steps[i] = step
    THEN SubSeq(steps, 1, CHOOSE i \in 1..Len(steps) : steps[i] = step)
    ELSE steps

PingSteps == <<"cursor", "execute", "close">>
\* the step that raises, if any, and what the driver does there
PingErrors == {Exc("OperationalError", <<"c", "l", "o", "s", "e", "d">>),
               Exc("InterfaceError", Needle)}
PingInputs ==
    {<<"none", DriverReturns>>}
    \cup {<<PingSteps[i], DriverRaises(e)>> : i \in 1..Len(PingSteps), e \in PingErrors}

\* a slip: cursor.close() is called outside the try block
DqliteDialect_do_ping_close_outside(step, o) ==
    IF step = "cursor" THEN ReturnsBool(FALSE)
    ELSE IF step = "execute" THEN ReturnsBool(FALSE)
    ELSE IF step = "close" THEN Raises(o.exc)
    ELSE ReturnsBool(TRUE)

DqliteDialect_do_ping(step, o) ==
    IF step = "cursor" THEN ReturnsBool(FALSE)
    ELSE IF step = "execute" THEN ReturnsBool(FALSE)
    ELSE IF step = "close" THEN ReturnsBool(FALSE)
    ELSE ReturnsBool(TRUE)

do_ping(dialect, step, o) ==
    /\ method' = Method(dialect, "do_ping")
    /\ given' = Given(NoURL, step, o, None, <<>>)
    /\ dcalls' = CallsUpTo(PingSteps, step)
    /\ outcome' = DqliteDialect_do_ping(step, o)
    /\ UNCHANGED adapterVars

----------------------------------------------------------------------------
\* create_connect_args

\* base.py:42-51
DqliteDialect_create_connect_args(url) ==
    LET host == PyOr(url.host, "", "localhost")
        port == PyOr(url.port, 0, 9001)
        database == PyOr(url.database, "", "default")
        address == host \o ":" \o Str(port)
    IN ReturnsConnectArgs(<<>>, [address |-> address, database |-> database])

\* aio.py:154-163
DqliteDialect_aio_create_connect_args(url) ==
    LET host == PyOr(url.host, "", "localhost")
        port == PyOr(url.port, 0, 9001)
        database == PyOr(url.database, "", "default")
        address == host \o ":" \o Str(port)
    IN ReturnsConnectArgs(<<>>, [address |-> address, database |-> database])

create_connect_args(dialect, url) ==
    /\ method' = Method(dialect, "create_connect_args")
    /\ given' = Given(url, "none", DriverReturns, None, <<>>)
    /\ dcalls' = <<>>
    /\ outcome' = IF dialect = "sync" THEN DqliteDialect_create_connect_args(url)
                  ELSE DqliteDialect_aio_create_connect_args(url)
    /\ UNCHANGED adapterVars

----------------------------------------------------------------------------
\* _get_server_version_info

\* the version numbers a server may have, and the str sqlite_version()
\* spells them as: their decimal digits joined by dots
VersionNumbers == {0, 2, 3, 44}
Versions == SeqsUpTo(VersionNumbers, MaxComponents) \ {<<>>}
RECURSIVE VersionStr(_)
VersionStr(numbers) ==
    IF Len(numbers) = 1 THEN IntChars(numbers[1])
    ELSE VersionStr(SubSeq(numbers, 1, Len(numbers) - 1))
            \o <<".">> \o IntChars(numbers[Len(numbers)])

\* strings that spell no version numbers, or spell them with leading zeros
V307 == <<"3", ".", "0", "7">>
OddVersionStrs == {<<>>, <<"3", ".", ".", "4">>, <<"3", ".", "4", "b">>,
                   <<"3", ".">>, V307}

\* the row fetchone answers (None: no row; else the one-column row) with
\* the numbers it spells
VersionRows ==
    {<<None, <<>>>>}
    \cup {<<Some(<<VersionStr(v)>>), v>> : v \in Versions}
    \cup {<<Some(<<t>>), <<>>>> : t \in OddVersionStrs}

VersionSteps == <<"cursor", "execute:SELECT sqlite_version()", "fetchone", "close">>
\* the step that raises, if any, what the driver does there, and the row
VersionInputs ==
    {<<"none", DriverReturns, r>> : r \in VersionRows}
    \cup {<<VersionSteps[i], DriverRaises(Exc("OperationalError", <<>>)), <<None, <<>>>> >> :
             i \in 1..Len(VersionSteps)}

\* a slip: only major and minor are parsed
ParseVersion_two(version_str) ==
    LET all == Split(version_str)
        pieces == SubSeq(all, 1, Min(2, Len(all)))
    IN IF \A i \in 1..Len(pieces) : IsInt(pieces[i])
       THEN ReturnsTuple([i \in 1..Len(pieces) |-> IntOf(pieces[i])])
       ELSE Raises(Exc("ValueError", <<>>))

\* tuple(int(x) for x in version_str.split(".")): ValueError at the first
\* piece that is no integer
ParseVersion(version_str) ==
    LET pieces == Split(version_str) IN
    IF \A i \in 1..Len(pieces) : IsInt(pieces[i])
    THEN ReturnsTuple([i \in 1..Len(pieces) |-> IntOf(pieces[i])])
    ELSE Raises(Exc("ValueError", <<>>))

\* base.py:110-118: a driver failure propagates from the step that raises
DqliteDialect__get_server_version_info(step, o, row) ==
    IF step # "none" THEN Raises(o.exc)
    ELSE IF Truthy(row) THEN ParseVersion(row[1][1])
    ELSE ReturnsTuple(<<3, 0, 0>>)

\* aio.py:183-191
DqliteDialect_aio__get_server_version_info(step, o, row) ==
    IF step # "none" THEN Raises(o.exc)
    ELSE IF Truthy(row) THEN ParseVersion(row[1][1])
    ELSE ReturnsTuple(<<3, 0, 0>>)

_get_server_version_info(dialect, step, o, r) ==
    /\ method' = Method(dialect, "_get_server_version_info")
    /\ given' = Given(NoURL, step, o, r[1], r[2])
    /\ dcalls' = CallsUpTo(VersionSteps, step)
    /\ outcome' = IF dialect = "sync"
                  THEN DqliteDialect__get_server_version_info(step, o, r[1])
                  ELSE DqliteDialect_aio__get_server_version_info(step, o, r[1])
    /\ UNCHANGED adapterVars

----------------------------------------------------------------------------
Next ==
    \/ \E op \in Statements :
          \E p \in Parameters(op), x \in ExecuteInputs(op) :
              execute(op, p, x[1], x[2]) /\ UNCHANGED connVars
    \/ \E op \in Statements, sp \in SeqsOfParameters :
          \E x \in ExecutemanyInputs(op) :
              executemany(op, sp, x[1], x[2]) /\ UNCHANGED connVars
    \/ fetchone
    \/ \E size \in Sizes : fetchmany(size)
    \/ fetchall
    \/ close
    \/ __next__
    \/ __iter__
    \/ \E n \in 1..MaxSize : set_arraysize(n)

Spec == Init /\ [][Next]_vars

NextDialect ==
    \/ \E dialect \in Dialects, o \in DriverOutcomes : do_rollback(dialect, o)
    \/ \E dialect \in Dialects, o \in DriverOutcomes : do_commit(dialect, o)
    \/ \E dialect \in Dialects, x \in PingInputs : do_ping(dialect, x[1], x[2])
    \/ \E dialect \in Dialects, url \in URLs : create_connect_args(dialect, url)
    \/ \E dialect \in Dialects, x \in VersionInputs :
          _get_server_version_info(dialect, x[1], x[2], x[3])

SpecDialect == Init /\ [][NextDialect]_vars

\* one caller on one connection and its cursor
NextConnection ==
    \/ \E op \in Statements :
          \E p \in Parameters(op), x \in ConnectionInputs(ExecuteInputs(op)) :
              cursor_execute(op, p, x[1], x[2])
    \/ \E op \in Statements, sp \in SeqsOfParameters :
          \E x \in ConnectionInputs(ExecutemanyInputs(op)) :
              cursor_executemany(op, sp, x[1], x[2])
    \/ \E fails \in BOOLEAN : AsyncAdaptedConnection_commit(fails)
    \/ \E fails \in BOOLEAN : AsyncAdaptedConnection_rollback(fails)
    \/ \E fails \in BOOLEAN : AsyncAdaptedConnection_close(fails)

SpecConnection == Init /\ [][NextConnection]_vars


----------------------------------------------------------------------------
\* Properties of the adapted cursor.

\* the adapted cursor holds the buffered result rows of the last statement
HoldsRows == description # None /\ rowcount = -1 /\ _rows = drv.rows
\* the adapted cursor holds the row-count metadata of the last statement
\* and no buffered rows
HoldsMetadata ==
    /\ description = None
    /\ rowcount = drv.rowcount
    /\ lastrowid = drv.lastrowid
    /\ _rows = <<>>

\* C1: just after execute or executemany has returned, exactly one of
\* "holds the buffered rows of that statement" and "holds its row-count
\* metadata and no buffered rows" is true; before the first execute the
\* buffer is empty, rowcount is -1 and lastrowid is None.
C1_RowsXorMetadata ==
    /\ ~executed => _rows = <<>> /\ rowcount = -1 /\ lastrowid = None
    /\ (ret.op \in {"execute", "executemany"} /\ ~ret.raised)
          => (HoldsRows /\ ~HoldsMetadata) \/ (~HoldsRows /\ HoldsMetadata)

\* no fetch operation has returned a row of the last execute that filled
\* the buffer, and close has not discarded them
Unfetched == served = <<>> /\ ~discarded

\* C3: after an execute that produced rows r1..rM, a fetchall with no
\* fetch (and no close) in between returns exactly r1..rM in order, and
\* every fetchall after a fetchall, before execute next fills the buffer,
\* returns the empty sequence.
C3_FetchallDrainsOnce ==
    [][fetchall =>
          /\ ~ret'.raised
          /\ Unfetched => ret'.val = produced
          /\ drains >= 1 => ret'.val = <<>>]_vars
C3_Witness ==
    /\ ret = Returned("fetchall", <<>>)
    /\ drains = 2
    /\ Len(produced) = MaxRows
    /\ served = produced

\* C4: N consecutive fetchone calls on a buffer of M < N rows return the M
\* rows in order and then None each time, without raising.
C4_FetchoneRun ==
    /\ \A i \in 1..Len(streak) :
          streak[i] = IF i <= Len(streakBase) THEN Some(streakBase[i]) ELSE None
    /\ streak # <<>> => ret = Returned("fetchone", streak[Len(streak)])
C4_Witness ==
    /\ Len(streakBase) = MaxRows
    /\ Len(streak) = MaxRows + MaxMiss

\* C5: executemany adds no row to the buffer, sets description to None and
\* leaves rowcount and lastrowid at the underlying cursor's values, also
\* when that cursor reports column metadata.  (Every operation names
\* itself in ret, so a step that ends with ret.op = "executemany" is an
\* executemany call; drv' is the underlying cursor it opened.)
C5_ExecutemanyNeverBuffers ==
    [][(ret'.op = "executemany" /\ ~ret'.raised)
          => /\ _rows' = _rows
             /\ description' = None
             /\ rowcount' = drv'.rowcount
             /\ lastrowid' = drv'.lastrowid]_vars
C5_Witness ==
    /\ ret = Returned("executemany", None)
    /\ Truthy(drv.description) /\ Len(drv.rows) = MaxRows
    /\ _rows = <<>> /\ description = None
    /\ rowcount = 1 /\ lastrowid = Some(7)

\* C7: when execute returns, a result with column metadata leaves its
\* description, rowcount = lastrowid = -1 and exactly its rows in the
\* buffer; a result without leaves description None and the underlying
\* rowcount and lastrowid; parameters reach the driver iff they were given.
HasColumns(d) == d.description \notin {None, Some(<<>>)}
C7_ExecuteCaptures ==
    ret.op = "execute" =>
       /\ calls[2] = IF args.parameters = None
                     THEN Call("execute", args.operation, 1, <<>>)
                     ELSE Call("execute", args.operation, 2, args.parameters[1])
       /\ (~ret.raised /\ HasColumns(drv))
             => /\ description = drv.description
                /\ rowcount = -1 /\ lastrowid = Some(-1)
                /\ _rows = drv.rows
       /\ (~ret.raised /\ ~HasColumns(drv))
             => /\ description = None
                /\ rowcount = drv.rowcount
                /\ lastrowid = drv.lastrowid
C7_Witness ==
    /\ ret = Returned("execute", None)
    /\ description = Some(<<"id">>) /\ rowcount = -1 /\ lastrowid = Some(-1)
    /\ drv.rowcount = 1
    /\ Len(_rows) = MaxRows /\ _rows = drv.rows
    /\ args.parameters = Some(<<>>) /\ calls[2].nargs = 2

\* C10: fetchmany(n) on k buffered rows returns the first min(n, k) rows in
\* order and leaves the other rows buffered in order; without n it uses
\* arraysize, which is 1 until the caller assigns it.
C10_FetchmanyPops ==
    /\ arraysize = 1
    /\ [][/\ arraysize' # arraysize => ret'.op = "arraysize"
          /\ ret'.op = "fetchmany" =>
                LET n == IF args'.size = None THEN arraysize ELSE args'.size[1]
                    k == Len(_rows)
                    m == Min(n, k)
                IN /\ ret' = Returned("fetchmany", SubSeq(_rows, 1, m))
                   /\ _rows' = SubSeq(_rows, m + 1, k)]_vars
C10_Witness ==
    /\ ret.op = "fetchmany" /\ Len(ret.val) = 1
    /\ args.size = None /\ arraysize = 1
    /\ Len(_rows) = MaxRows - 1

----------------------------------------------------------------------------
\* Properties of the dialect methods.

\* C2: do_commit and do_rollback, sync and async, call the connection's
\* commit/rollback exactly once; they return normally when it succeeds or
\* fails with a message containing "no transaction is active", and
\* otherwise raise the very failure the connection raised.
C2_SuppressNoTransaction ==
    method.name \in {"do_commit", "do_rollback"} =>
       /\ dcalls = IF method.name = "do_commit" THEN <<"commit">> ELSE <<"rollback">>
       /\ ~given.driver.raises => outcome = ReturnsNone
       /\ (given.driver.raises /\ Contains(given.driver.exc.msg, Needle))
             => outcome = ReturnsNone
       /\ (given.driver.raises /\ ~Contains(given.driver.exc.msg, Needle))
             => outcome = Raises(given.driver.exc)
C2_Witness ==
    /\ method = Method("aio", "do_rollback")
    /\ given.driver = DriverRaises(Exc("OperationalError",
                         <<"p", "i", "a">> \o Needle \o <<"l", "y">>))
    /\ outcome = ReturnsNone

\* C6: do_ping never raises; it returns True when cursor(), execute("SELECT 1")
\* and close() all succeed and False when any of them fails.
C6_PingNeverRaises ==
    method.name = "do_ping" =>
       /\ ~outcome.raised
       /\ outcome.bool = (given.step = "none")
       /\ given.step = "none" => dcalls = <<"cursor", "execute", "close">>
C6_Witness ==
    /\ method.name = "do_ping"
    /\ given.step = "close" /\ given.driver.raises
    /\ outcome = ReturnsBool(FALSE)

\* the connect arguments C8 states for a URL: the URL's own value where it
\* specifies one, the default where it does not
StatedConnectArgs(url) ==
    LET host == IF url.host # None THEN url.host[1] ELSE "localhost"
        port == IF url.port # None THEN url.port[1] ELSE 9001
        database == IF url.database # None THEN url.database[1] ELSE "default"
    IN ReturnsConnectArgs(<<>>, [address |-> host \o ":" \o Str(port),
                                 database |-> database])

\* C8: create_connect_args returns no positional arguments and the keywords
\* address = "<host>:<port>" and database, taking each from the URL
\* whenever the URL specifies it and the default localhost, 9001, default
\* only when it does not; the sync and async dialects agree.
C8_ConnectArgsFromURL ==
    method.name = "create_connect_args" =>
       /\ outcome = StatedConnectArgs(given.url)
       /\ DqliteDialect_create_connect_args(given.url)
             = DqliteDialect_aio_create_connect_args(given.url)

V3442 == <<"3", ".", "4", "4", ".", "2">>

\* C9: _get_server_version_info, when no driver call fails, returns the
\* numbers the version string spells, in order ("3.44.2" gives (3, 44, 2)),
\* and (3, 0, 0) when there is no row; it has closed its cursor by then.
C9_VersionParsed ==
    (method.name = "_get_server_version_info" /\ given.step = "none") =>
       /\ given.row = None => outcome = ReturnsTuple(<<3, 0, 0>>)
       /\ given.numbers # <<>> => outcome = ReturnsTuple(given.numbers)
       /\ given.row = Some(<<V3442>>) => outcome = ReturnsTuple(<<3, 44, 2>>)
       /\ given.row = Some(<<V307>>) => outcome = ReturnsTuple(<<3, 7>>)
       /\ dcalls = VersionSteps /\ dcalls[Len(dcalls)] = "close"
C9_Witness ==
    /\ method = Method("aio", "_get_server_version_info")
    /\ given.row = Some(<<V3442>>)
    /\ outcome = ReturnsTuple(<<3, 44, 2>>)
    /\ dcalls[Len(dcalls)] = "close"

----------------------------------------------------------------------------
\* The buffer as a queue.

\* an iteration step of either protocol
IterationStep == __next__ \/ __iter__

\* C11: after an execute that produced the rows R, and until close
\* discards the buffer, the rows the fetch and iteration operations have
\* returned so far, in call order, followed by the rows still buffered, are
\* R; and one iteration step returns the row and leaves the buffer one
\* fetchone would, raising StopIteration exactly when fetchone would return
\* None.
C11_PopFromFront ==
    /\ [](~discarded => served \o _rows = produced)
    /\ [][IterationStep =>
            /\ _rows' = fetchone_pop(_rows).rest
            /\ ret'.raised = (fetchone_pop(_rows).val = None)
            /\ ret'.val = fetchone_pop(_rows).val]_vars
\* every produced row has been served and an iteration step has then
\* signalled the end
C11_Witness ==
    /\ ret = Raised("__iter__")
    /\ ~discarded
    /\ Len(produced) = MaxRows
    /\ served = produced
    /\ _rows = <<>>

----------------------------------------------------------------------------
\* The buffer operations touch nothing but the buffer.

BufferOps == {"fetchone", "fetchmany", "fetchall", "__next__", "__iter__", "close"}

\* C12: fetchone, fetchmany, fetchall, an iteration step and close make no
\* call on the underlying driver connection or cursor (so they never
\* suspend) and leave description, rowcount, lastrowid and arraysize
\* unchanged; close empties the buffer and does not raise, and a close
\* directly after a close changes nothing.
C12_BufferOpsLocal ==
    [][/\ ret'.op \in BufferOps =>
            /\ calls' = <<>>
            /\ UNCHANGED <<description, rowcount, lastrowid, arraysize, drv>>
       /\ ret'.op = "close" =>
            /\ _rows' = <<>>
            /\ ~ret'.raised
            /\ ret.op = "close" => UNCHANGED <<cursorVars, drv, calls, ret>>]_vars
\* close has discarded rows of a result that was only partly fetched
C12_Witness ==
    /\ ret = Returned("close", None)
    /\ description # None
    /\ Len(produced) = MaxRows
    /\ Len(served) = 1
    /\ _rows = <<>>

----------------------------------------------------------------------------
\* The driver calls of one connection.

\* the names of a sequence of driver calls
Names(cs) == [i \in 1..Len(cs) |-> cs[i].name]

\* the statement- and connection-level operations the driver has received,
\* in order
Received ==
    LET ops == SelectSeq(wire, LAMBDA c : c.name \in {"execute", "executemany",
                                  "commit", "rollback", "connection.close"})
    IN [i \in 1..Len(ops) |-> [name |-> ops[i].name, operation |-> ops[i].operation]]

\* C13: an execute call that returns has made, on the underlying cursor, one
\* execute of its statement, then one fetchall exactly when the result has
\* column metadata, then one close, in that order; commit, rollback and
\* close of the connection make exactly one underlying call each; and the
\* operations the driver has received are the caller's calls, in the
\* caller's order, each once.
C13_DriverSeesCallOrder ==
    /\ (ret.op = "execute" /\ ~ret.raised) =>
          /\ Names(calls) = IF Truthy(drv.description)
                            THEN <<"cursor", "execute", "fetchall", "close">>
                            ELSE <<"cursor", "execute", "close">>
          /\ calls[2].operation = args.operation
          /\ drv.closed
    /\ ret.op \in {"commit", "rollback", "connection.close"} =>
          Names(calls) = <<ret.op>>
    /\ Received = issued
\* a rollback, a commit and then an execute that fetched a row
C13_Witness ==
    /\ Len(issued) = 3
    /\ issued[1].name = "rollback"
    /\ issued[2].name = "commit"
    /\ issued[3] = [name |-> "execute", operation |-> "q2"]
    /\ Len(wire) = 6
    /\ ret = Returned("execute", None)
    /\ _rows = Rows("q2", 1)

----------------------------------------------------------------------------
\* The underlying cursors.

\* C14: the underlying driver cursor opened by the last execute or
\* executemany has been closed once that call has returned or raised, also
\* when the underlying execute, executemany or fetchall raised.
C14_UnderlyingCursorClosed ==
    ret.op \in {"execute", "executemany"} => drv.closed

====
